---- MODULE Spec2Model ----
(***************************************************************************)
(* Midnight Markets: the market-data aggregation core.                     *)
(*                                                                         *)
(*   - the asset dashboard of src/App.tsx: the query coordinator (mode,    *)
(*     chain filter, search text, 600 ms debounce), the two asset          *)
(*     adapters (fetchBluechips, fetchMemecoins) and the reconciliation    *)
(*     of DEX pairs into assets;                                           *)
(*   - the news feed's TTL cache (fetchNews), in its two variants:         *)
(*     src/unnamed/part_000 (public feed) and src/components/NewsFeed.tsx  *)
(*     (AI-backed feed).                                                   *)
(*   - the chat assistant of src/unnamed/part_000 (ChatBot): sendMessage   *)
(*     in its Live and Simulated states, and getSimulatedResponse.         *)
(*                                                                         *)
(* React state is one variable per useState cell.  An event handler and    *)
(* the effect that React runs after the re-render it causes are one        *)
(* action: React 19 (README) flushes the effects of an update made in a    *)
(* click or input event before it returns to the event loop.               *)
(* An async function is split at its awaits: the synchronous prefix is     *)
(* part of the action that calls it, every pending network call is a       *)
(* record of `inflight`, and its resolution is an action of its own.       *)
(***************************************************************************)
EXTENDS Integers, Sequences, FiniteSets, TLC

VARIABLES
    \* ---- src/App.tsx, App component state
    appMounted,     \* the mount effect has run
    marketMode,     \* "bluechips" | "memecoins"
    blockchain,     \* chain filter
    searchQuery,    \* search text, a sequence of characters
    assets,         \* sequence of Asset records
    loading,
    error,          \* NoError or a message
    lastUpdated,    \* 0: null; n > 0: the n-th successful write's Date
    timers,         \* pending setTimeout callbacks of the coordinator
    inflight,       \* pending network calls of the asset adapters, oldest first
    sortKey,        \* "market_cap" | "price_change" | "volume" | "name"
    sortOrder,      \* "desc" | "asc"
    \* ---- history variables of the asset dashboard (not program state)
    elapsed,        \* ms of timer time since the coordinator last ran
    cleared,        \* the handler whose effect run last cancelled a pending timer, or "no"
    searchIssued,   \* Search-mode fetches issued since the coordinator last ran
    latest,         \* what became of the most recently triggered fetch
    \* ---- reconciliation of one pair payload (fetchMemecoins, lines 192-222)
    rcPairs,        \* the pairs of the response
    rcChain,        \* the chain filter the call was made under
    rcOut,          \* the mapped assets
    rcDone,
    \* ---- NewsFeed component state and its localStorage bucket
    variant,        \* "public" (src/unnamed/part_000) | "ai" (NewsFeed.tsx)
    newsMounted,    \* the mount effect has run
    storage,        \* what localStorage holds under CACHE_KEY
    news,           \* the displayed items
    newsLoading,
    newsError,
    isCached,       \* the AI-backed variant's CACHED badge
    newsInflight,   \* pending network calls of fetchNews, oldest first, each with
                    \* the bucket it was issued over (history)
    newsNow,        \* Date.now(), ms since the component was constructed
    nextPoll,       \* when the setInterval callback is next due
    \* ---- history variables of the news feed (not program state)
    newsEvent,      \* the last action taken
    lastRead,       \* what the last fetchNews call found on its read path
    lastResp,       \* how the last resolved network call ended
    written,        \* the last entry a refresh wrote, and whether it was served
    issueTracked,   \* whether each call is recorded with the bucket it was issued over
    \* ---- ChatBot component state (src/unnamed/part_000, lines 149-301)
    hasApiKey,      \* HAS_API_KEY, fixed at process start
    messages,       \* sequence of [role, text]
    input,          \* the text of the input box, a sequence of characters
    isTyping,
    chatPending,    \* the pending reply: the 1000 ms timer or the live call
    \* ---- one evaluation of processedAssets (src/App.tsx, lines 245-260)
    vwAssets,       \* the assets state it reads
    vwMode,         \* marketMode
    vwQuery,        \* searchQuery
    vwKey,          \* sortKey
    vwOrder,        \* sortOrder
    vwEngine,       \* the sort algorithm of the JavaScript engine
    vwOut,          \* the value of processedAssets
    vwAgain,        \* the sort of lines 251-258 applied to that value
    vwDone,
    \* ---- history variables of the chat (not program state)
    chatWaited,     \* ms of timer time since the last accepted request
    chatEvent       \* the last action taken

assetVars == <<appMounted, marketMode, blockchain, searchQuery, assets, loading,
               error, lastUpdated, timers, inflight>>
assetVars_but_timers == <<appMounted, marketMode, blockchain, searchQuery, assets,
                         loading, error, lastUpdated, inflight>>
assetHist == <<elapsed, cleared, searchIssued, latest>>
sortVars == <<sortKey, sortOrder>>
rcVars == <<rcPairs, rcChain, rcOut, rcDone>>
newsVars == <<variant, newsMounted, storage, news, newsLoading, newsError, isCached,
              newsInflight, newsNow, nextPoll>>
newsHist == <<newsEvent, lastRead, lastResp, written, issueTracked>>
chatVars == <<hasApiKey, messages, input, isTyping, chatPending>>
chatHist == <<chatWaited, chatEvent>>
viewVars == <<vwAssets, vwMode, vwQuery, vwKey, vwOrder, vwEngine, vwOut, vwAgain,
              vwDone>>

----------------------------------------------------------------------------
(* Bounds of the model *)

\* at most this many asset network calls pending at once
MaxInFlight == 2
\* timer time advances in steps of at most this many ms
TickMs == 300
\* lastUpdated counts successful writes up to this many
MaxStamp == 1
\* longest pair payload reconciled exhaustively
MaxPairs == 3
\* longest pair payload whose numeric fields are drawn exhaustively
MaxFieldPairs == 1
\* at most this many asset network calls pending at once while the sort
\* controls are exercised
MaxControlsInFlight == 1
\* at most this many news network calls pending at once
MaxNewsInFlight == 2
\* the news clock runs for this many steps of NewsStepMs
MaxNewsTicks == 7
\* longest asset list filtered exhaustively, and sorted exhaustively
MaxFilterAssets == 2
MaxSortAssets == 3
\* the conversation holds at most this many messages
MaxMessages == 4
\* the chat timer's time advances in steps of at most this many ms
ChatTickMs == 500

(* Program constants *)

\* setTimeout(() => fetchMemecoins(searchQuery), 600)
DebounceMs == 600
\* rank: 999
SentinelRank == 999
\* setInterval(() => fetchNews(), 300000)
PollMs == 300000
\* const CACHE_TTL = 5 * 60 * 1000 (public feed), 15 * 60 * 1000 (AI-backed)
CacheTtlPublic == 5 * 60 * 1000
CacheTtlAi == 15 * 60 * 1000
\* the delay of the simulated reply: setTimeout(..., 1000)
SimDelayMs == 1000

----------------------------------------------------------------------------
(* Values *)

NoError == "null"
Modes == {"bluechips", "memecoins"}
\* Blockchain = 'solana' | 'ethereum' | 'base' | 'bsc' | 'all'; three of the five
Chains == {"all", "solana", "ethereum"}
\* search texts: empty, whitespace only, and two non-blank ones
Texts == {<<>>, <<" ">>, <<"a">>, <<"a", "b">>}

Min(a, b) == IF a < b THEN a ELSE b

\* String.prototype.trim on a sequence of characters
RECURSIVE TrimLeft(_)
TrimLeft(s) == IF s # <<>> /\ Head(s) = " " THEN TrimLeft(Tail(s)) ELSE s
RECURSIVE TrimRight(_)
TrimRight(s) ==
    IF s # <<>> /\ s[Len(s)] = " " THEN TrimRight(SubSeq(s, 1, Len(s) - 1)) ELSE s
Trim(s) == TrimRight(TrimLeft(s))

\* query && query.trim().length > 0
HasQuery(q) == Len(q) > 0 /\ Len(Trim(q)) > 0

----------------------------------------------------------------------------
(* Upstream payloads *)

\* a text field of the DEX feed: a numeric text, absent, or not a number
Txt(n) == [k |-> "num", v |-> n]
Missing == [k |-> "missing", v |-> 0]
Junk == [k |-> "junk", v |-> 0]

\* a number of the canonical model; parseFloat yields NaN on unparseable text
Num(n) == [nan |-> FALSE, v |-> n]
NaN == [nan |-> TRUE, v |-> 0]

\* parseFloat(x || '0')
ParseFloatOr0(x) ==
    IF x.k = "missing" THEN Num(0)
    ELSE IF x.k = "num" THEN Num(x.v)
    ELSE NaN

\* a trading pair of the DEX feed; q identifies the pool's quote
Pair(chain, addr, liq, q) ==
    [chainId |-> chain, address |-> addr, symbol |-> addr, name |-> addr,
     priceUsd |-> Txt(q), h24 |-> Txt(q + 10), fdv |-> Txt(q + 20),
     vol |-> Txt(q + 30), liquidity |-> liq]

\* a coin of the ranked feed
Coin(id, cap, rank) ==
    [id |-> id, symbol |-> id, name |-> id, current_price |-> cap,
     pct |-> Txt(rank), market_cap |-> cap, total_volume |-> cap,
     market_cap_rank |-> rank]

RankedPayloads == {<<Coin("btc", 900, 1), Coin("eth", 400, 2)>>}
\* a pair without baseToken: reading pair.baseToken.address throws
NoBaseToken == "undefined"
PairPayloads ==
    {<<>>,
     <<Pair("solana", "0xAB", Txt(100), 1), Pair("solana", "0xAB", Txt(500), 2),
       Pair("ethereum", "0xCD", Missing, 3)>>,
     <<Pair("solana", NoBaseToken, Missing, 4)>>}
\* the trending-token addresses of the discovery call, joined
AddressPayloads == {<<>>, <<"0xAB", "0xCD">>}

----------------------------------------------------------------------------
(* fetchBluechips: the mapping of the ranked feed *)

\* lines 137-148; upper case of a symbol is not modelled (symbols are opaque)
MapCoin(c) ==
    [id |-> c.id, symbol |-> c.symbol, name |-> c.name,
     currentPrice |-> Num(c.current_price),
     priceChange24h |-> IF c.pct.k = "num" THEN Num(c.pct.v) ELSE Num(0),
     marketCap |-> Num(c.market_cap), volume24h |-> Num(c.total_volume),
     rank |-> c.market_cap_rank, blockchain |-> "none", contractAddress |-> "none"]

MapCoins(data) == [i \in 1..Len(data) |-> MapCoin(data[i])]

----------------------------------------------------------------------------
(* fetchMemecoins: filter by chain, sort by liquidity, keep the first pair  *)
(* of each base-token address                                               *)

\* (x.liquidity?.usd || 0)
LiqOf(p) == IF p.liquidity.k = "num" THEN p.liquidity.v ELSE 0

\* blockchain === 'all' ? pairResults : pairResults.filter(p => p.chainId === blockchain)
FilterPairs(pairs, chain) ==
    IF chain = "all" THEN pairs ELSE SelectSeq(pairs, LAMBDA p : p.chainId = chain)

\* a faulty comparator: ascending liquidity
LiqBeforeAsc(a, b) == LiqOf(a) < LiqOf(b)
\* the comparator (b.liquidity?.usd || 0) - (a.liquidity?.usd || 0) puts a
\* strictly before b when it is negative
LiqBefore(a, b) == LiqOf(a) > LiqOf(b)

\* Array.prototype.sort is stable: insert each pair after those that do not
\* come strictly after it
RECURSIVE InsertPair(_, _)
InsertPair(sorted, p) ==
    IF sorted = <<>> THEN <<p>>
    ELSE IF LiqBefore(p, Head(sorted)) THEN <<p>> \o sorted
    ELSE <<Head(sorted)>> \o InsertPair(Tail(sorted), p)

RECURSIVE SortPairs(_)
SortPairs(pairs) ==
    IF pairs = <<>> THEN <<>>
    ELSE InsertPair(SortPairs(SubSeq(pairs, 1, Len(pairs) - 1)), pairs[Len(pairs)])

\* lines 205-218
MapPair(p) ==
    [id |-> p.address, symbol |-> p.symbol, name |-> p.name,
     currentPrice |-> ParseFloatOr0(p.priceUsd),
     priceChange24h |-> ParseFloatOr0(p.h24),
     marketCap |-> ParseFloatOr0(p.fdv),
     volume24h |-> ParseFloatOr0(p.vol),
     rank |-> SentinelRank, blockchain |-> p.chainId, contractAddress |-> p.address]

\* sortedPairs.forEach with the seenTokens set
RECURSIVE Dedup(_, _, _)
Dedup(pairs, seen, acc) ==
    IF pairs = <<>> THEN acc
    ELSE LET p == Head(pairs) IN
         IF p.address \in seen THEN Dedup(Tail(pairs), seen, acc)
         ELSE Dedup(Tail(pairs), seen \cup {p.address}, Append(acc, MapPair(p)))

Reconcile(pairs, chain) == Dedup(SortPairs(FilterPairs(pairs, chain)), {}, <<>>)

----------------------------------------------------------------------------
(* The asset adapters: synchronous prefix, and what a resolved call does *)

\* new Date() on a successful write
Stamp(n) == IF n < MaxStamp THEN n + 1 ELSE MaxStamp

\* a faulty endpoint choice: the search endpoint whatever the query
AlwaysSearch(q) == "search"
\* which call fetchMemecoins(query) makes first (lines 161-166)
DexKind(q) == IF HasQuery(q) THEN "search" ELSE "discovery"

\* setLoading(true); setError(null); the first network call is issued
Issue(kind, q, chain) ==
    /\ inflight' = Append([i \in 1..Len(inflight) |-> [inflight[i] EXCEPT !.latest = FALSE]],
                          [kind |-> kind, query |-> q, chain |-> chain, phase |-> 1,
                           latest |-> TRUE])
    /\ loading' = TRUE
    /\ error' = NoError
    /\ latest' = [state |-> "pending", result |-> <<>>]

\* a faulty coordinator branch: the DEX adapter is called in bluechip mode
FetchViaDex == Issue("discovery", <<>>, "all")
\* fetchBluechips(), up to its await (lines 128-134)
FetchBluechips == Issue("ranked", <<>>, "all")

\* fetchMemecoins(query) of the render whose chain filter is `chain`, up to
\* its first await (lines 157-168)
FetchMemecoins(q, chain) == Issue(DexKind(q), q, chain)

RemoveAt(s, i) == SubSeq(s, 1, i - 1) \o SubSeq(s, i + 1, Len(s))

\* the history of the most recently triggered fetch
Outcome(rec, state, result) ==
    IF rec.latest THEN [state |-> state, result |-> result] ELSE latest

\* setAssets(result); setLastUpdated(new Date()); finally setLoading(false)
ApplyResult(i, result) ==
    /\ assets' = result
    /\ lastUpdated' = Stamp(lastUpdated)
    /\ loading' = FALSE
    /\ inflight' = RemoveAt(inflight, i)
    /\ latest' = Outcome(inflight[i], "applied", result)
    /\ UNCHANGED error

\* a faulty catch: the failed call is issued again
FailAndRetry(i, msg) ==
    /\ error' = msg
    /\ loading' = FALSE
    /\ inflight' = Append(RemoveAt(inflight, i), [inflight[i] EXCEPT !.phase = 1])
    /\ latest' = Outcome(inflight[i], "failed", <<>>)
    /\ UNCHANGED <<assets, lastUpdated>>
\* a faulty catch: the failure also empties the asset list
FailClearsAssets(i, msg) ==
    /\ error' = msg
    /\ loading' = FALSE
    /\ assets' = <<>>
    /\ inflight' = RemoveAt(inflight, i)
    /\ latest' = Outcome(inflight[i], "failed", <<>>)
    /\ UNCHANGED lastUpdated
\* catch: setError(msg); finally setLoading(false)
FailWith(i, msg) ==
    /\ error' = msg
    /\ loading' = FALSE
    /\ inflight' = RemoveAt(inflight, i)
    /\ latest' = Outcome(inflight[i], "failed", <<>>)
    /\ UNCHANGED <<assets, lastUpdated>>

\* the forEach of line 201 throws on a filtered pair without baseToken
MappingThrows(pairs, chain) ==
    \E i \in 1..Len(FilterPairs(pairs, chain)) :
        FilterPairs(pairs, chain)[i].address = NoBaseToken

\* a faulty mapping: the exception leaves fetchMemecoins uncaught
ApplyPairsUncaught(i, pairs) ==
    IF MappingThrows(pairs, inflight[i].chain)
    THEN /\ inflight' = RemoveAt(inflight, i)
         /\ latest' = Outcome(inflight[i], "failed", <<>>)
         /\ UNCHANGED <<assets, lastUpdated, loading, error>>
    ELSE ApplyResult(i, Reconcile(pairs, inflight[i].chain))
\* lines 192-229 on the pairs of a response: the mapping, inside the try
ApplyPairs(i, pairs) ==
    IF MappingThrows(pairs, inflight[i].chain)
    THEN FailWith(i, "Dex Uplink Interrupted")
    ELSE ApplyResult(i, Reconcile(pairs, inflight[i].chain))

\* fetchBluechips after its await (lines 135-154): a failed transport
\* rejects with the runtime's message, a non-success status with the code's
ResolveRanked(i) ==
    \/ \E data \in RankedPayloads : ApplyResult(i, MapCoins(data))
    \/ FailWith(i, "Liquidity feed dropped.")
    \/ FailWith(i, "Failed to fetch")

\* fetchMemecoins after the await of its search call (lines 169-174, 192-229)
ResolveSearch(i) ==
    \/ \E pairs \in PairPayloads : ApplyPairs(i, pairs)
    \/ FailWith(i, "Dex Uplink Interrupted")

\* a faulty early return: the empty result is reported as a failure
EmptyAsError(i) ==
    /\ assets' = <<>>
    /\ loading' = FALSE
    /\ error' = "Dex Uplink Interrupted"
    /\ inflight' = RemoveAt(inflight, i)
    /\ latest' = Outcome(inflight[i], "applied", <<>>)
    /\ UNCHANGED lastUpdated
\* if (!addresses) { setAssets([]); setLoading(false); return; } and the
\* finally (lines 180-184, 227-229)
EmptyDiscovery(i) ==
    /\ assets' = <<>>
    /\ loading' = FALSE
    /\ inflight' = RemoveAt(inflight, i)
    /\ latest' = Outcome(inflight[i], "applied", <<>>)
    /\ UNCHANGED <<error, lastUpdated>>

\* fetchMemecoins after the await of its trending-token call (lines 169-186)
ResolveDiscovery(i) ==
    \/ \E addresses \in AddressPayloads :
         IF addresses = <<>>
         THEN EmptyDiscovery(i)
         ELSE \* the batched pair lookup is issued
              /\ inflight' = [inflight EXCEPT ![i].phase = 2]
              /\ UNCHANGED <<assets, loading, error, lastUpdated, latest>>
    \/ FailWith(i, "Dex Uplink Interrupted")

\* fetchMemecoins after the await of its pair lookup (lines 187-229)
ResolvePairs(i) ==
    \/ \E pairs \in PairPayloads : ApplyPairs(i, pairs)
    \/ FailWith(i, "Dex Uplink Interrupted")

----------------------------------------------------------------------------
(* The query coordinator: useEffect of lines 232-243 *)

\* a faulty effect: it returns no cleanup
NoCleanup(ts) == {[t EXCEPT !.owned = FALSE] : t \in ts}
\* return () => clearTimeout(timer): the timer of the previous run is cleared
RunCleanup(ts) == {t \in ts : ~t.owned}

\* a faulty delay: half the window
HalfWindow == DebounceMs \div 2
\* the delay handed to setTimeout
Window == DebounceMs

\* the cleanup of the previous run, then the effect under the new
\* dependencies (m, c, q); `by` names the handler, for the history
RunEffect(m, c, q, by) ==
    LET kept == RunCleanup(timers) IN
    /\ cleared' = IF \E t \in timers : t.owned /\ t \notin kept THEN by ELSE "no"
    /\ elapsed' = 0
    /\ searchIssued' = 0
    /\ IF m = "bluechips"
       THEN /\ timers' = kept
            /\ FetchBluechips
       ELSE IF Len(Trim(q)) > 0
       THEN /\ timers' = kept \cup {[query |-> q, chain |-> c, remaining |-> Window,
                                    owned |-> TRUE]}
            /\ UNCHANGED <<inflight, loading, error, latest>>
       ELSE /\ timers' = kept
            /\ FetchMemecoins(<<>>, c)

\* a handler has set the dependencies to (m, c, q): React re-renders and
\* re-runs the effect only when one of them changed
SetQueryState(m, c, q, by) ==
    /\ marketMode' = m
    /\ blockchain' = c
    /\ searchQuery' = q
    /\ IF <<m, c, q>> # <<marketMode, blockchain, searchQuery>>
       THEN RunEffect(m, c, q, by)
       ELSE UNCHANGED <<timers, inflight, loading, error, latest, cleared, elapsed,
                        searchIssued>>
    /\ UNCHANGED <<appMounted, assets, lastUpdated>>

CanIssue == Len(inflight) < MaxInFlight

\* the first run of the effect, after the first render
AppMount ==
    /\ ~appMounted
    /\ appMounted' = TRUE
    /\ RunEffect(marketMode, blockchain, searchQuery, "mount")
    /\ UNCHANGED <<marketMode, blockchain, searchQuery, assets, lastUpdated>>
    /\ UNCHANGED <<rcVars, newsVars, newsHist, chatVars, chatHist, sortVars, viewVars>>

\* a faulty mode button: it sets the mode only
ModeClickKeepsFilter(m) ==
    /\ appMounted /\ CanIssue
    /\ SetQueryState(m, blockchain, searchQuery, "mode")
    /\ UNCHANGED <<rcVars, newsVars, newsHist, chatVars, chatHist, sortVars, viewVars>>

\* onClick of a mode button (line 290)
ModeClick(m) ==
    /\ appMounted /\ CanIssue
    /\ SetQueryState(m, "all", <<>>, "mode")
    /\ UNCHANGED <<rcVars, newsVars, newsHist, chatVars, chatHist, sortVars, viewVars>>

\* onClick of a chain button, rendered in memecoin mode only (lines 302-307)
ChainClick(c) ==
    /\ appMounted /\ CanIssue
    /\ marketMode = "memecoins"
    /\ SetQueryState(marketMode, c, searchQuery, "chain")
    /\ UNCHANGED <<rcVars, newsVars, newsHist, chatVars, chatHist, sortVars, viewVars>>

\* onChange of the search input (line 325)
SearchInput(q) ==
    /\ appMounted /\ CanIssue
    /\ q # searchQuery
    /\ SetQueryState(marketMode, blockchain, q, "search")
    /\ UNCHANGED <<rcVars, newsVars, newsHist, chatVars, chatHist, sortVars, viewVars>>

\* timer time passes, never beyond the next deadline
Advance ==
    /\ timers # {}
    /\ LET d == Min(TickMs, CHOOSE r \in {t.remaining : t \in timers} :
                               \A t \in timers : r <= t.remaining) IN
       /\ d > 0
       /\ timers' = {[t EXCEPT !.remaining = t.remaining - d] : t \in timers}
       /\ elapsed' = elapsed + d
    /\ UNCHANGED <<assetVars_but_timers, cleared, searchIssued, latest>>
    /\ UNCHANGED <<rcVars, newsVars, newsHist, chatVars, chatHist, sortVars, viewVars>>

\* the debounce callback: () => fetchMemecoins(searchQuery), with the search
\* text and the fetchMemecoins (hence the chain filter) of the render that
\* set the timer
TimerFire ==
    /\ CanIssue
    /\ \E t \in timers :
         /\ t.remaining = 0
         /\ timers' = timers \ {t}
         /\ FetchMemecoins(t.query, t.chain)
         /\ searchIssued' = IF DexKind(t.query) = "search"
                            THEN Min(searchIssued + 1, 2) ELSE searchIssued
    /\ UNCHANGED <<appMounted, marketMode, blockchain, searchQuery, assets,
                   lastUpdated, elapsed, cleared>>
    /\ UNCHANGED <<rcVars, newsVars, newsHist, chatVars, chatHist, sortVars, viewVars>>

\* a pending network call of an asset adapter resolves
Respond ==
    /\ \E i \in 1..Len(inflight) :
         CASE inflight[i].kind = "ranked" -> ResolveRanked(i)
           [] inflight[i].kind = "search" -> ResolveSearch(i)
           [] inflight[i].kind = "discovery" /\ inflight[i].phase = 1 -> ResolveDiscovery(i)
           [] OTHER -> ResolvePairs(i)
    /\ UNCHANGED <<appMounted, marketMode, blockchain, searchQuery, timers,
                   elapsed, cleared, searchIssued>>
    /\ UNCHANGED <<rcVars, newsVars, newsHist, chatVars, chatHist, sortVars, viewVars>>

----------------------------------------------------------------------------
(* The sort controls (lines 335-355) *)

\* the keys that have a button; SortKey has 'name' too, which none sets
SortButtons == {"market_cap", "price_change", "volume"}

\* a faulty sort button: a new key keeps the order
SortClickKeepsOrder(k) ==
    /\ appMounted
    /\ IF sortKey = k
       THEN /\ sortOrder' = IF sortOrder = "desc" THEN "asc" ELSE "desc"
            /\ UNCHANGED sortKey
       ELSE /\ sortKey' = k
            /\ UNCHANGED sortOrder
    /\ UNCHANGED <<assetVars, assetHist, rcVars, newsVars, newsHist, chatVars, chatHist,
                   viewVars>>

\* onClick of a sort button (lines 342-345); no dependency of the
\* coordinator changes, so its effect does not run
SortClick(k) ==
    /\ appMounted
    /\ IF sortKey = k
       THEN /\ sortOrder' = IF sortOrder = "desc" THEN "asc" ELSE "desc"
            /\ UNCHANGED sortKey
       ELSE /\ sortKey' = k
            /\ sortOrder' = "desc"
    /\ UNCHANGED <<assetVars, assetHist, rcVars, newsVars, newsHist, chatVars, chatHist,
                   viewVars>>

\* the handlers that issue a fetch, taken while fewer than
\* MaxControlsInFlight calls are pending
ControlsQuiet == Len(inflight) < MaxControlsInFlight
QuietModeClick(m) == ControlsQuiet /\ ModeClick(m)
QuietChainClick(c) == ControlsQuiet /\ ChainClick(c)
QuietSearchInput(q) == ControlsQuiet /\ SearchInput(q)
QuietTimerFire == ControlsQuiet /\ TimerFire

----------------------------------------------------------------------------
(* The news feed: fetchNews and its TTL cache *)

Variants == {"public", "ai"}
CacheTtl == IF variant = "public" THEN CacheTtlPublic ELSE CacheTtlAi
\* the news clock advances by half a poll interval
NewsStepMs == PollMs \div 2

\* what localStorage.getItem(CACHE_KEY) returns: null, a text JSON.parse
\* throws on, or the JSON text of a CacheData
Absent == [k |-> "absent", items |-> <<>>, expiry |-> 0]
Garbage == [k |-> "garbage", items |-> <<>>, expiry |-> 0]
\* JSON.stringify(cacheData)
Stringify(data) == [k |-> "json", items |-> data.items, expiry |-> data.expiry]
\* JSON.parse(cached): defined on JSON text only
ParseThrows(raw) == raw.k # "json"
Parse(raw) == [items |-> raw.items, expiry |-> raw.expiry]

\* the items of a response, after mapping
NewsPayloads == {<<>>, <<"n1">>, <<"n2", "n3">>}
\* what a previous session may have left in the bucket
LeftOver ==
    {Absent, Garbage} \cup
    {Stringify([items |-> <<"old">>, expiry |-> e]) : e \in {0, 3 * NewsStepMs}}

\* a faulty test: the entry is still served at now = expiry
FreshInclusive(now, expiry) == now <= expiry
\* Date.now() < parsed.expiry
Fresh(now, expiry) == now < expiry

\* a faulty catch: the broken entry is left in place
KeepCorrupt(raw) == raw
\* catch (e) { localStorage.removeItem(CACHE_KEY) }
OnCorrupt(raw) == Absent

\* a faulty read: an expired entry is removed
DropExpired(raw) == Absent
\* an expired entry falls through the if: nothing is done to it
OnExpired(raw) == raw

\* a faulty write: the expiry is the time of the write
EntryNoTtl(items, now) == [items |-> items, expiry |-> now]
\* const cacheData = { items, expiry: Date.now() + CACHE_TTL }
CacheEntry(items, now) == [items |-> items, expiry |-> now + CacheTtl]

\* a faulty guard: a forced call reads the cache too
AlwaysRead(force) == TRUE
\* if (!force)
ReadsCache(force) == ~force

\* what the read path of fetchNews(force) finds
ReadCase(force) ==
    IF ~ReadsCache(force) THEN "forced"
    ELSE IF storage.k = "absent" THEN "absent"
    ELSE IF ParseThrows(storage) THEN "corrupt"
    ELSE IF Fresh(newsNow, Parse(storage).expiry) THEN "hit"
    ELSE "expired"

\* fetchNews(force), up to its await or its early return
FetchNews(force) ==
    LET found == ReadCase(force) IN
    /\ lastRead' = found
    /\ IF found = "hit"
       THEN \* setNews(parsed.items); setLoading(false); setIsCached(true); return
            /\ news' = Parse(storage).items
            /\ newsLoading' = FALSE
            /\ isCached' = IF variant = "ai" THEN TRUE ELSE isCached
            /\ written' = [written EXCEPT !.served = TRUE]
            /\ UNCHANGED <<storage, newsError, newsInflight>>
       ELSE \* setLoading(true); setError(false); setIsCached(false); the call
            /\ storage' = CASE found = "corrupt" -> OnCorrupt(storage)
                            [] found = "expired" -> OnExpired(storage)
                            [] OTHER -> storage
            /\ newsLoading' = TRUE
            /\ newsError' = FALSE
            /\ isCached' = FALSE
            /\ newsInflight' = Append(newsInflight,
                    [forced |-> force,
                     stored |-> IF issueTracked THEN storage' ELSE Absent])
            /\ UNCHANGED <<news, written>>

CanFetchNews == Len(newsInflight) < MaxNewsInFlight

\* useEffect(() => { fetchNews(); setInterval(...) }, [])
NewsMount ==
    /\ ~newsMounted
    /\ newsMounted' = TRUE
    /\ FetchNews(FALSE)
    /\ nextPoll' = newsNow + PollMs
    /\ newsEvent' = "mount"
    /\ UNCHANGED <<variant, newsNow, lastResp, issueTracked>>
    /\ UNCHANGED <<assetVars, assetHist, rcVars, chatVars, chatHist, sortVars, viewVars>>

\* the setInterval callback: () => fetchNews()
PollTick ==
    /\ newsMounted /\ CanFetchNews
    /\ newsNow = nextPoll
    /\ nextPoll' = nextPoll + PollMs
    /\ FetchNews(FALSE)
    /\ newsEvent' = "poll"
    /\ UNCHANGED <<variant, newsMounted, newsNow, lastResp, issueTracked>>
    /\ UNCHANGED <<assetVars, assetHist, rcVars, chatVars, chatHist, sortVars, viewVars>>

\* onClick of the refresh button, disabled={loading}
ForceClick ==
    /\ newsMounted /\ CanFetchNews
    /\ ~newsLoading
    /\ FetchNews(TRUE)
    /\ newsEvent' = "force"
    /\ UNCHANGED <<variant, newsMounted, newsNow, nextPoll, lastResp, issueTracked>>
    /\ UNCHANGED <<assetVars, assetHist, rcVars, chatVars, chatHist, sortVars, viewVars>>

\* setNews(items); localStorage.setItem(CACHE_KEY, JSON.stringify(cacheData))
WriteNews(items) ==
    /\ news' = items
    /\ storage' = Stringify(CacheEntry(items, newsNow))
    /\ written' = [at |-> newsNow, items |-> items, served |-> FALSE]
    /\ UNCHANGED newsError

\* catch: setError(true)
NewsFail ==
    /\ newsError' = TRUE
    /\ UNCHANGED <<news, storage, written>>

\* fetchNews after its await: the response carries items, or no Data field
\* (public feed), or the call failed; finally setLoading(false)
NewsRespond ==
    /\ \E i \in 1..Len(newsInflight) :
         /\ newsInflight' = RemoveAt(newsInflight, i)
         /\ \/ \E items \in NewsPayloads :
                 /\ lastResp' = [kind |-> "ok", items |-> items,
                                 forced |-> newsInflight[i].forced]
                 /\ IF variant = "ai" /\ items = <<>>
                    THEN \* throw new Error("Empty intel response")
                         NewsFail
                    ELSE WriteNews(items)
            \/ /\ variant = "public"
               /\ lastResp' = [kind |-> "nodata", items |-> <<>>,
                               forced |-> newsInflight[i].forced]
               /\ UNCHANGED <<news, storage, written, newsError>>
            \/ /\ lastResp' = [kind |-> "fail", items |-> <<>>,
                               forced |-> newsInflight[i].forced]
               /\ NewsFail
    /\ newsLoading' = FALSE
    /\ newsEvent' = "resp"
    /\ UNCHANGED <<variant, newsMounted, isCached, newsNow, nextPoll, lastRead,
                   issueTracked>>
    /\ UNCHANGED <<assetVars, assetHist, rcVars, chatVars, chatHist, sortVars, viewVars>>

\* time passes, never beyond the next poll
NewsAdvance ==
    /\ newsMounted
    /\ newsNow < MaxNewsTicks * NewsStepMs
    /\ newsNow + NewsStepMs <= nextPoll
    /\ newsNow' = newsNow + NewsStepMs
    /\ newsEvent' = "tick"
    /\ UNCHANGED <<variant, newsMounted, storage, news, newsLoading, newsError,
                   isCached, newsInflight, nextPoll, lastRead, lastResp, written,
                   issueTracked>>
    /\ UNCHANGED <<assetVars, assetHist, rcVars, chatVars, chatHist, sortVars, viewVars>>

----------------------------------------------------------------------------
(* Reconciliation of one pair payload under one chain filter *)

PairChains == {"solana", "ethereum"}
PairAddresses == {"0xAB", "0xCD"}
PairLiquidities == {Missing, Txt(100), Txt(500)}
PairShapes == [chainId : PairChains, address : PairAddresses, liquidity : PairLiquidities]

\* the payloads: every sequence of up to MaxPairs pairs; the i-th pair
\* quotes price i, so that each pool's quote is its own
PairSeqs == UNION {[1..n -> PairShapes] : n \in 0..MaxPairs}
MkPairs(shapes) ==
    [i \in 1..Len(shapes) |->
        Pair(shapes[i].chainId, shapes[i].address, shapes[i].liquidity, i)]

\* the payloads of up to MaxFieldPairs pairs, each of the four numeric
\* fields a numeric text, absent, or a text that is not a number
FieldValues == {Txt(7), Missing, Junk}
FieldShapes ==
    [chainId : PairChains, address : PairAddresses, priceUsd : FieldValues,
     h24 : FieldValues, fdv : FieldValues, vol : FieldValues]
FieldSeqs == UNION {[1..n -> FieldShapes] : n \in 0..MaxFieldPairs}
MkFieldPairs(shapes) ==
    [i \in 1..Len(shapes) |->
        [chainId |-> shapes[i].chainId, address |-> shapes[i].address,
         symbol |-> shapes[i].address, name |-> shapes[i].address,
         priceUsd |-> shapes[i].priceUsd, h24 |-> shapes[i].h24,
         fdv |-> shapes[i].fdv, vol |-> shapes[i].vol, liquidity |-> Txt(100)]]

\* lines 192-222 on the payload rcPairs
MapPairs ==
    /\ ~rcDone
    /\ rcOut' = Reconcile(rcPairs, rcChain)
    /\ rcDone' = TRUE
    /\ UNCHANGED <<rcPairs, rcChain>>
    /\ UNCHANGED <<assetVars, assetHist, newsVars, newsHist, chatVars, chatHist, sortVars, viewVars>>

----------------------------------------------------------------------------
(* The chat assistant: getSimulatedResponse and sendMessage *)

\* a request text is a sequence of characters; a reply text is a sequence of
\* pieces, each a string literal of the code, so that + is \o
UpperCase == <<"A", "B", "C", "D", "E", "F", "G", "H", "I", "J", "K", "L", "M",
               "N", "O", "P", "Q", "R", "S", "T", "U", "V", "W", "X", "Y", "Z">>
LowerCase == <<"a", "b", "c", "d", "e", "f", "g", "h", "i", "j", "k", "l", "m",
               "n", "o", "p", "q", "r", "s", "t", "u", "v", "w", "x", "y", "z">>
\* String.prototype.toLowerCase
ToLowerChar(c) ==
    IF \E i \in 1..26 : UpperCase[i] = c
    THEN LowerCase[CHOOSE i \in 1..26 : UpperCase[i] = c]
    ELSE c
ToLowerCase(t) == [i \in 1..Len(t) |-> ToLowerChar(t[i])]
\* String.prototype.includes
Includes(t, sub) ==
    \E i \in 0..(Len(t) - Len(sub)) : SubSeq(t, i + 1, i + Len(sub)) = sub

KwBitcoin == <<"b", "i", "t", "c", "o", "i", "n">>
KwBtc == <<"b", "t", "c">>
KwEthereum == <<"e", "t", "h", "e", "r", "e", "u", "m">>
KwEth == <<"e", "t", "h">>
KwMemecoin == <<"m", "e", "m", "e", "c", "o", "i", "n">>
KwMeme == <<"m", "e", "m", "e">>
KwAnalysis == <<"a", "n", "a", "l", "y", "s", "i", "s">>
KwMarket == <<"m", "a", "r", "k", "e", "t">>

\* the five texts of getSimulatedResponse, each named by its first sentence
BitcoinReply == "Bitcoin is currently testing major psychological resistance levels."
EthereumReply == "Ethereum's network activity has seen a slight uptick in L2 gas consumption."
MemecoinReply == "The memecoin sector is currently high-volatility."
MarketReply == "Broad market structure remains in a consolidation phase."
DefaultReply == "The terminal is operating in simulated intelligence mode."
\* the suffix of the catch branch, and the text of an empty live response
DegradedMarker == " (Note: Live uplink failed, using simulated data)."
TimeoutReply == "Protocol timeout. Signal lost."

\* a faulty responder: the request text is not lower-cased
GetSimulatedResponseCased(userInput) ==
    IF Includes(userInput, KwBitcoin) \/ Includes(userInput, KwBtc) THEN <<BitcoinReply>>
    ELSE IF Includes(userInput, KwEthereum) \/ Includes(userInput, KwEth) THEN <<EthereumReply>>
    ELSE IF Includes(userInput, KwMemecoin) \/ Includes(userInput, KwMeme) THEN <<MemecoinReply>>
    ELSE IF Includes(userInput, KwAnalysis) \/ Includes(userInput, KwMarket) THEN <<MarketReply>>
    ELSE <<DefaultReply>>
\* getSimulatedResponse (lines 222-237)
GetSimulatedResponse(userInput) ==
    LET lower == ToLowerCase(userInput) IN
    IF Includes(lower, KwBitcoin) \/ Includes(lower, KwBtc) THEN <<BitcoinReply>>
    ELSE IF Includes(lower, KwEthereum) \/ Includes(lower, KwEth) THEN <<EthereumReply>>
    ELSE IF Includes(lower, KwMemecoin) \/ Includes(lower, KwMeme) THEN <<MemecoinReply>>
    ELSE IF Includes(lower, KwAnalysis) \/ Includes(lower, KwMarket) THEN <<MarketReply>>
    ELSE <<DefaultReply>>

\* a faulty catch: the simulated text, unmarked
FallbackUnmarked(textToSend) == GetSimulatedResponse(textToSend)
\* catch: getSimulatedResponse(textToSend) + " (Note: ...)" (lines 293-297)
FallbackText(textToSend) == GetSimulatedResponse(textToSend) \o <<DegradedMarker>>

\* response.text || "Protocol timeout. Signal lost."
ModelText(text) == IF text = <<>> THEN <<TimeoutReply>> ELSE text

\* what the user types: empty, blank, one keyword of each group in some
\* case, no keyword, two groups at once, and a keyword inside another word
ChatTexts ==
    {<<>>, <<" ">>, <<"B", "T", "C">>, <<"E", "t", "h">>, <<"m", "e", "m", "e">>, <<"M", "a", "r", "k", "e", "t">>, <<"h", "i">>,
     <<"m", "e", "m", "e", " ", "B", "T", "C">>, <<"m", "e", "t", "h", "o", "d">>}
\* a suggestion button's text
Suggestions == {<<"N", "e", "x", "t", " ", "B", "i", "t", "c", "o", "i", "n", " ", "m", "o", "v", "e", "?">>}
\* the texts of a live response: empty, or an answer
LiveTexts == {<<>>, <<"live answer">>}

\* a faulty guard: a request is accepted while a reply is pending
SendWhileTyping(overrideInput) ==
    LET textToSend == IF overrideInput # <<>> THEN overrideInput ELSE input IN
    /\ Len(Trim(textToSend)) > 0
    /\ Len(messages) < MaxMessages
    /\ messages' = Append(messages, [role |-> "user", text |-> textToSend])
    /\ input' = <<>>
    /\ isTyping' = TRUE
    /\ chatPending' = Append(chatPending,
                             IF ~hasApiKey
                             THEN [kind |-> "timer", text |-> textToSend,
                                   remaining |-> SimDelayMs]
                             ELSE [kind |-> "live", text |-> textToSend,
                                   remaining |-> 0])
    /\ chatWaited' = 0
    /\ UNCHANGED hasApiKey
\* sendMessage(overrideInput) up to its await or its return (lines 239-264);
\* an early return changes nothing
SendMessage(overrideInput) ==
    LET textToSend == IF overrideInput # <<>> THEN overrideInput ELSE input IN
    /\ Len(Trim(textToSend)) > 0
    /\ ~isTyping
    /\ Len(messages) < MaxMessages
    /\ messages' = Append(messages, [role |-> "user", text |-> textToSend])
    /\ input' = <<>>
    /\ isTyping' = TRUE
    /\ chatPending' = Append(chatPending,
                             IF ~hasApiKey
                             THEN [kind |-> "timer", text |-> textToSend,
                                   remaining |-> SimDelayMs]
                             ELSE [kind |-> "live", text |-> textToSend,
                                   remaining |-> 0])
    /\ chatWaited' = 0
    /\ UNCHANGED hasApiKey

\* onChange of the input box (line 421)
ChatInput(t) ==
    /\ t # input
    /\ input' = t
    /\ chatEvent' = "input"
    /\ UNCHANGED <<hasApiKey, messages, isTyping, chatPending, chatWaited>>
    /\ UNCHANGED <<assetVars, assetHist, rcVars, newsVars, newsHist, sortVars, viewVars>>

\* Enter in the input box, or the send button (lines 422-427)
SendClick ==
    /\ SendMessage(<<>>)
    /\ chatEvent' = "send"
    /\ UNCHANGED <<assetVars, assetHist, rcVars, newsVars, newsHist, sortVars, viewVars>>

\* onClick of a suggestion button, disabled={isTyping} (lines 401-404)
SuggestionClick(suggestion) ==
    /\ ~isTyping
    /\ SendMessage(suggestion)
    /\ chatEvent' = "suggest"
    /\ UNCHANGED <<assetVars, assetHist, rcVars, newsVars, newsHist, sortVars, viewVars>>

\* timer time passes, never beyond the deadline of the pending reply
ChatAdvance ==
    /\ \E i \in 1..Len(chatPending) :
         /\ chatPending[i].kind = "timer"
         /\ chatPending[i].remaining > 0
         /\ LET d == Min(ChatTickMs, chatPending[i].remaining) IN
            /\ chatPending' = [chatPending EXCEPT ![i].remaining = @ - d]
            /\ chatWaited' = chatWaited + d
    /\ chatEvent' = "tick"
    /\ UNCHANGED <<hasApiKey, messages, input, isTyping>>
    /\ UNCHANGED <<assetVars, assetHist, rcVars, newsVars, newsHist, sortVars, viewVars>>

\* the setTimeout callback of the simulated reply (lines 254-262)
SimReply ==
    /\ \E i \in 1..Len(chatPending) :
         /\ chatPending[i].kind = "timer"
         /\ chatPending[i].remaining = 0
         /\ messages' = Append(messages, [role |-> "model",
                                          text |-> GetSimulatedResponse(chatPending[i].text)])
         /\ chatPending' = RemoveAt(chatPending, i)
    /\ isTyping' = FALSE
    /\ chatEvent' = "sim"
    /\ UNCHANGED <<hasApiKey, input, chatWaited>>
    /\ UNCHANGED <<assetVars, assetHist, rcVars, newsVars, newsHist, sortVars, viewVars>>

\* sendMessage after its await (lines 266-300): the call returned a
\* response, or it (or the reading of the response) threw; finally
\* setIsTyping(false)
LiveRespond ==
    /\ \E i \in 1..Len(chatPending) :
         /\ chatPending[i].kind = "live"
         /\ chatPending' = RemoveAt(chatPending, i)
         /\ \/ \E text \in LiveTexts :
                 /\ messages' = Append(messages, [role |-> "model",
                                                  text |-> ModelText(text)])
                 /\ chatEvent' = "live_ok"
            \/ /\ messages' = Append(messages, [role |-> "model",
                                                 text |-> FallbackText(chatPending[i].text)])
               /\ chatEvent' = "live_fail"
    /\ isTyping' = FALSE
    /\ UNCHANGED <<hasApiKey, input, chatWaited>>
    /\ UNCHANGED <<assetVars, assetHist, rcVars, newsVars, newsHist, sortVars, viewVars>>

----------------------------------------------------------------------------
(* The sort/filter pipeline: processedAssets (lines 245-260) *)

\* x - y and -x on numbers of the canonical model
Minus(x, y) == IF x.nan \/ y.nan THEN NaN ELSE Num(x.v - y.v)
Negate(x) == IF x.nan THEN NaN ELSE Num(0 - x.v)

\* the place of a character in the collation: letters by alphabet whatever
\* their case, anything else first (names that differ in case only are not
\* among the inputs)
Rank(c) ==
    IF \E i \in 1..26 : LowerCase[i] = ToLowerChar(c)
    THEN CHOOSE i \in 1..26 : LowerCase[i] = ToLowerChar(c)
    ELSE 0
\* a.localeCompare(b)
RECURSIVE LocaleCompare(_, _)
LocaleCompare(a, b) ==
    IF a = <<>> /\ b = <<>> THEN 0
    ELSE IF a = <<>> THEN -1
    ELSE IF b = <<>> THEN 1
    ELSE IF Rank(Head(a)) < Rank(Head(b)) THEN -1
    ELSE IF Rank(Head(a)) > Rank(Head(b)) THEN 1
    ELSE LocaleCompare(Tail(a), Tail(b))

\* the comparator of lines 251-257
Comp(key, order, a, b) ==
    LET comp == CASE key = "market_cap" -> Minus(b.marketCap, a.marketCap)
                  [] key = "price_change" -> Minus(b.priceChange24h, a.priceChange24h)
                  [] key = "volume" -> Minus(b.volume24h, a.volume24h)
                  [] key = "name" -> Num(LocaleCompare(a.name, b.name))
                  [] OTHER -> Num(0)
    IN IF order = "desc" THEN comp ELSE Negate(comp)
\* Array.prototype.sort puts a before b when the comparator is negative; a
\* NaN result counts as +0
ComesBefore(key, order, a, b) ==
    ~Comp(key, order, a, b).nan /\ Comp(key, order, a, b).v < 0

\* Array.prototype.sort is stable; with a comparator that is not consistent
\* (a NaN field) the order is implementation-defined.  Two insertion sorts
\* engines use on short arrays: a linear one, which moves the new element
\* left while it comes before its neighbour, and a binary one, which looks
\* its place up by bisection.
SortEngines == {"linear", "binary"}
\* a faulty insertion: the new element also passes the elements it ties with
RECURSIVE InsertUnstable(_, _, _, _)
InsertUnstable(key, order, sorted, p) ==
    IF sorted = <<>> THEN <<p>>
    ELSE IF ~ComesBefore(key, order, sorted[Len(sorted)], p)
    THEN Append(InsertUnstable(key, order, SubSeq(sorted, 1, Len(sorted) - 1), p),
                sorted[Len(sorted)])
    ELSE Append(sorted, p)
RECURSIVE InsertLinear(_, _, _, _)
InsertLinear(key, order, sorted, p) ==
    IF sorted = <<>> THEN <<p>>
    ELSE IF ComesBefore(key, order, p, sorted[Len(sorted)])
    THEN Append(InsertLinear(key, order, SubSeq(sorted, 1, Len(sorted) - 1), p),
                sorted[Len(sorted)])
    ELSE Append(sorted, p)
RECURSIVE BinaryPos(_, _, _, _, _, _)
BinaryPos(key, order, sorted, p, left, right) ==
    IF left >= right THEN left
    ELSE LET mid == left + ((right - left) \div 2) IN
         IF ComesBefore(key, order, p, sorted[mid + 1])
         THEN BinaryPos(key, order, sorted, p, left, mid)
         ELSE BinaryPos(key, order, sorted, p, mid + 1, right)
InsertBinary(key, order, sorted, p) ==
    LET pos == BinaryPos(key, order, sorted, p, 0, Len(sorted)) IN
    SubSeq(sorted, 1, pos) \o <<p>> \o SubSeq(sorted, pos + 1, Len(sorted))
\* result.sort((a, b) => ...)
RECURSIVE SortBy(_, _, _, _)
SortBy(engine, key, order, list) ==
    IF list = <<>> THEN <<>>
    ELSE LET front == SortBy(engine, key, order, SubSeq(list, 1, Len(list) - 1))
             last == list[Len(list)]
         IN IF engine = "binary"
            THEN InsertBinary(key, order, front, last)
            ELSE InsertLinear(key, order, front, last)

\* a faulty match: the case of the letters counts
MatchesCased(a, q) == Includes(a.name, q) \/ Includes(a.symbol, q)
\* a.name.toLowerCase().includes(query) || a.symbol.toLowerCase().includes(query)
Matches(a, q) ==
    \/ Includes(ToLowerCase(a.name), ToLowerCase(q))
    \/ Includes(ToLowerCase(a.symbol), ToLowerCase(q))
\* lines 246-250
FilterAssets(list, mode, q) ==
    IF mode = "bluechips" /\ Len(Trim(q)) > 0
    THEN SelectSeq(list, LAMBDA a : Matches(a, q))
    ELSE list
\* processedAssets
ProcessedAssets(engine, list, mode, q, key, order) ==
    SortBy(engine, key, order, FilterAssets(list, mode, q))

\* the sort keys of the SortKey type
SortKeys == {"market_cap", "price_change", "volume", "name"}
SortOrders == {"desc", "asc"}
\* names and symbols of assets; the ranked feed's symbols are upper-cased
ViewCoins ==
    [bit |-> [name |-> <<"B", "i", "t">>, symbol |-> <<"B", "T", "C">>],
     eth |-> [name |-> <<"E", "t", "h">>, symbol |-> <<"E", "T", "H">>],
     tether |-> [name |-> <<"T", "e", "t", "h", "e", "r">>, symbol |-> <<"U", "S", "D", "T">>]]
\* search texts: empty, blank, and three that match in another case, by the
\* symbol only, by the name only, by either
ViewQueries == {<<>>, <<" ">>, <<"b", "T">>, <<"i", "t">>, <<"E", "T", "H">>}
\* an asset list: the i-th asset has id i and volume i; its 24h change
\* falls as its market cap rises
MkViewAssets(shapes) ==
    [i \in 1..Len(shapes) |->
        [id |-> i, name |-> shapes[i].who.name, symbol |-> shapes[i].who.symbol,
         marketCap |-> shapes[i].cap, priceChange24h |-> Negate(shapes[i].cap),
         volume24h |-> Num(i)]]
ViewLists(who, caps, n) ==
    {MkViewAssets(sh) : sh \in UNION {[1..k -> [who : who, cap : caps]] : k \in 0..n}}

\* one evaluation of the useMemo callback, and a second sort of its value
Render ==
    /\ ~vwDone
    /\ vwOut' = ProcessedAssets(vwEngine, vwAssets, vwMode, vwQuery, vwKey, vwOrder)
    /\ vwAgain' = SortBy(vwEngine, vwKey, vwOrder, vwOut')
    /\ vwDone' = TRUE
    /\ UNCHANGED <<vwAssets, vwMode, vwQuery, vwKey, vwOrder, vwEngine>>
    /\ UNCHANGED <<assetVars, assetHist, rcVars, newsVars, newsHist, chatVars, chatHist,
                   sortVars>>

----------------------------------------------------------------------------
(* Specifications *)

vars == <<assetVars, assetHist, rcVars, newsVars, newsHist, chatVars, chatHist, sortVars, viewVars>>

\* useState initial values (lines 117-126)
InitApp ==
    /\ appMounted = FALSE
    /\ marketMode = "bluechips"
    /\ blockchain = "all"
    /\ searchQuery = <<>>
    /\ assets = <<>>
    /\ loading = TRUE
    /\ error = NoError
    /\ lastUpdated = 0
    /\ sortKey = "market_cap"
    /\ sortOrder = "desc"
    /\ timers = {}
    /\ inflight = <<>>
    /\ elapsed = 0
    /\ cleared = "no"
    /\ searchIssued = 0
    /\ latest = [state |-> "none", result |-> <<>>]

IdleReconcile ==
    /\ rcPairs = <<>>
    /\ rcChain = "all"
    /\ rcOut = <<>>
    /\ rcDone = FALSE

\* useState initial values of NewsFeed; the bucket holds what was left in it
InitNews ==
    /\ variant \in Variants
    /\ newsMounted = FALSE
    /\ storage \in LeftOver
    /\ news = <<>>
    /\ newsLoading = TRUE
    /\ newsError = FALSE
    /\ isCached = FALSE
    /\ newsInflight = <<>>
    /\ newsNow = 0
    /\ nextPoll = 0
    /\ newsEvent = "init"
    /\ lastRead = "none"
    /\ lastResp = [kind |-> "none", items |-> <<>>, forced |-> FALSE]
    /\ written = [at |-> -1, items |-> <<>>, served |-> FALSE]
    /\ issueTracked = FALSE

IdleView ==
    /\ vwAssets = <<>>
    /\ vwMode = "bluechips"
    /\ vwQuery = <<>>
    /\ vwKey = "market_cap"
    /\ vwOrder = "desc"
    /\ vwEngine = "linear"
    /\ vwOut = <<>>
    /\ vwAgain = <<>>
    /\ vwDone = FALSE

\* useState initial values of ChatBot (lines 150-153)
InitChat ==
    /\ hasApiKey \in BOOLEAN
    /\ messages = <<>>
    /\ input = <<>>
    /\ isTyping = FALSE
    /\ chatPending = <<>>
    /\ chatWaited = 0
    /\ chatEvent = "init"

IdleChat ==
    /\ InitChat
    /\ hasApiKey = FALSE

IdleNews ==
    /\ InitNews
    /\ variant = "public"
    /\ storage = Absent

InitReconcile ==
    /\ rcPairs \in {MkPairs(sh) : sh \in PairSeqs}
    /\ rcChain \in Chains
    /\ rcOut = <<>>
    /\ rcDone = FALSE

InitFields ==
    /\ rcPairs \in {MkFieldPairs(sh) : sh \in FieldSeqs}
    /\ rcChain \in Chains
    /\ rcOut = <<>>
    /\ rcDone = FALSE

\* the asset dashboard
InitAssets == InitApp /\ IdleReconcile /\ IdleNews /\ IdleChat /\ IdleView
NextAssets ==
    \/ AppMount
    \/ \E m \in Modes : ModeClick(m)
    \/ \E c \in Chains : ChainClick(c)
    \/ \E q \in Texts : SearchInput(q)
    \/ Advance
    \/ TimerFire
    \/ Respond
SpecAssets == InitAssets /\ [][NextAssets]_vars

\* the asset dashboard with its sort controls
NextControls ==
    \/ AppMount
    \/ \E m \in Modes : QuietModeClick(m)
    \/ \E c \in Chains : QuietChainClick(c)
    \/ \E q \in Texts : QuietSearchInput(q)
    \/ \E k \in SortButtons : SortClick(k)
    \/ Advance
    \/ QuietTimerFire
    \/ Respond
SpecControls == InitAssets /\ [][NextControls]_vars

\* the reconciliation of a pair payload
NextReconcile == MapPairs
InitPairs == InitApp /\ InitReconcile /\ IdleNews /\ IdleChat /\ IdleView
SpecReconcile == InitPairs /\ [][NextReconcile]_vars
\* the mapping of a pair's numeric fields
InitFieldPairs == InitApp /\ InitFields /\ IdleNews /\ IdleChat /\ IdleView
SpecFields == InitFieldPairs /\ [][NextReconcile]_vars
\* the news feed
InitNewsFeed == InitApp /\ IdleReconcile /\ InitNews /\ IdleChat /\ IdleView
NextNews ==
    \/ NewsMount
    \/ PollTick
    \/ ForceClick
    \/ NewsRespond
    \/ NewsAdvance
SpecNews == InitNewsFeed /\ [][NextNews]_vars
\* the news feed with every call recorded with the bucket it was issued over
InitNewsIssued ==
    /\ InitApp /\ IdleReconcile /\ IdleChat /\ IdleView
    /\ variant \in Variants
    /\ newsMounted = FALSE
    /\ storage \in LeftOver
    /\ news = <<>>
    /\ newsLoading = TRUE
    /\ newsError = FALSE
    /\ isCached = FALSE
    /\ newsInflight = <<>>
    /\ newsNow = 0
    /\ nextPoll = 0
    /\ newsEvent = "init"
    /\ lastRead = "none"
    /\ lastResp = [kind |-> "none", items |-> <<>>, forced |-> FALSE]
    /\ written = [at |-> -1, items |-> <<>>, served |-> FALSE]
    /\ issueTracked = TRUE
SpecNewsIssued == InitNewsIssued /\ [][NextNews]_vars
\* the chat assistant
InitChatBot == InitApp /\ IdleReconcile /\ IdleNews /\ InitChat /\ IdleView
NextChat ==
    \/ \E t \in ChatTexts : ChatInput(t)
    \/ SendClick
    \/ \E suggestion \in Suggestions : SuggestionClick(suggestion)
    \/ ChatAdvance
    \/ SimReply
    \/ LiveRespond
SpecChat == InitChatBot /\ [][NextChat]_vars
\* the chat assistant whose timer fires and whose live call settles
SpecChatFair ==
    /\ InitChatBot
    /\ [][NextChat]_vars
    /\ WF_vars(ChatAdvance)
    /\ WF_vars(SimReply)
    /\ WF_vars(LiveRespond)

\* the filter of the pipeline, on lists of well-formed assets
InitFilterView ==
    /\ InitApp /\ IdleReconcile /\ IdleNews /\ IdleChat
    /\ vwAssets \in ViewLists({ViewCoins.bit, ViewCoins.eth, ViewCoins.tether}, {Num(3), Num(5)}, MaxFilterAssets)
    /\ vwMode \in Modes
    /\ vwQuery \in ViewQueries
    /\ vwKey \in SortKeys
    /\ vwOrder \in SortOrders
    /\ vwEngine \in SortEngines
    /\ vwOut = <<>>
    /\ vwAgain = <<>>
    /\ vwDone = FALSE
SpecFilter == InitFilterView /\ [][Render]_vars
\* the sort of the pipeline, on lists whose numbers may be NaN (a DEX field
\* parseFloat could not parse)
InitSortView ==
    /\ InitApp /\ IdleReconcile /\ IdleNews /\ IdleChat
    /\ vwAssets \in ViewLists({ViewCoins.bit, ViewCoins.eth}, {NaN, Num(3), Num(5)}, MaxSortAssets)
    /\ vwMode \in Modes
    /\ vwQuery = <<"i", "t">>
    /\ vwKey \in SortKeys
    /\ vwOrder \in SortOrders
    /\ vwEngine \in SortEngines
    /\ vwOut = <<>>
    /\ vwAgain = <<>>
    /\ vwDone = FALSE
SpecSort == InitSortView /\ [][Render]_vars

\* the three components together: they share no state, and each is
\* exercised while the other two rest in their initial state
InitAll == InitApp /\ IdleReconcile /\ InitNews /\ InitChat /\ IdleView
NextAll ==
    \/ IdleNews /\ IdleChat /\ NextAssets
    \/ InitApp /\ IdleChat /\ NextNews
    \/ InitApp /\ IdleNews /\ NextChat
SpecAll == InitAll /\ [][NextAll]_vars

----------------------------------------------------------------------------
(* Properties of the asset dashboard *)

\* a step that issues a Search-mode fetch
IssuesSearch ==
    /\ Len(inflight') = Len(inflight) + 1
    /\ inflight'[Len(inflight')].kind = "search"

\* C1: a superseded asset fetch's result is discarded: once every in-flight
\* fetch has resolved and the most recently triggered fetch succeeded, the
\* asset state holds that fetch's result, not an earlier fetch's.
C1_SupersededDiscarded ==
    (inflight = <<>> /\ latest.state = "applied") => assets = latest.result

\* the two halves of C3: the pending timer, and the step that issues the fetch
C3_Pending ==
    (appMounted /\ marketMode = "memecoins" /\ Len(Trim(searchQuery)) > 0) =>
        /\ searchIssued <= 1
        /\ searchIssued = 0 =>
             \E t \in timers :
                /\ timers = {t}
                /\ t.query = searchQuery
                /\ t.remaining = DebounceMs - elapsed
        /\ searchIssued = 1 => timers = {}
C3_Fires ==
    IssuesSearch =>
        /\ elapsed = DebounceMs
        /\ marketMode = "memecoins"
        /\ inflight'[Len(inflight')].query = searchQuery
        /\ searchIssued = 0 /\ searchIssued' = 1
\* C3: in memecoin mode with a non-blank search text, a burst of changes
\* issues exactly one Search-mode fetch: until it fires, exactly one timer
\* is pending, set for the current text and due DebounceMs after the last
\* change; the fetch is issued at that instant, with the current text, and
\* none is issued again before the next change.
C3_DebounceOneSearchFetch == []C3_Pending /\ [][C3_Fires]_vars

\* C3's case: the search text changed while a timer was pending, and the
\* one Search-mode fetch has been issued, for the last text
C3_Witness ==
    /\ cleared = "search"
    /\ searchIssued = 1
    /\ inflight # <<>>
    /\ inflight[Len(inflight)].kind = "search"
    /\ inflight[Len(inflight)].query = searchQuery
    /\ elapsed = DebounceMs

\* the two halves of C4: the pending timers, and the step that issues the fetch
C4_TimersCurrent ==
    \A t \in timers :
        /\ marketMode = "memecoins"
        /\ t.query = searchQuery
        /\ t.chain = blockchain
C4_FiresCurrent ==
    IssuesSearch =>
        /\ marketMode = "memecoins"
        /\ inflight'[Len(inflight')].query = searchQuery
        /\ inflight'[Len(inflight')].chain = blockchain
\* C4: a pending debounce timer never outlives the query state it was set
\* under: every pending timer is the one the coordinator set for the current
\* mode (memecoins), chain filter and search text, so none is pending in
\* bluechip mode, and a Search-mode fetch is only ever issued for the
\* current search text and chain filter.
C4_NoStaleTimer == []C4_TimersCurrent /\ [][C4_FiresCurrent]_vars

\* C4's case: a mode switch to bluechips cancelled a pending timer
C4_Witness ==
    /\ marketMode = "bluechips"
    /\ cleared = "mode"
    /\ timers = {}

\* C15: a step that is a click on a mode button, the selected one or the
\* other, leaves the chain filter at "all" and the search text empty,
\* whatever they were, and changes neither the sort key nor the sort order.
C15_ModeClickResets ==
    [][(\E m \in Modes : ModeClick(m)) =>
          /\ blockchain' = "all"
          /\ searchQuery' = <<>>
          /\ sortKey' = sortKey
          /\ sortOrder' = sortOrder]_vars

\* C15's case: with the sort moved to volume ascending, a click on the
\* selected mode (memecoins) reset a chain filter and a search text whose
\* timer was pending
C15_Witness ==
    /\ marketMode = "memecoins"
    /\ cleared = "mode"
    /\ elapsed = 0
    /\ blockchain = "all"
    /\ searchQuery = <<>>
    /\ sortKey = "volume"
    /\ sortOrder = "asc"
    /\ inflight # <<>>
    /\ inflight[Len(inflight)].kind = "discovery"

\* a step in which the coordinator's effect runs: the first render, or a
\* change of mode, chain filter or search text
CoordinatorRuns ==
    \/ ~appMounted /\ appMounted'
    \/ <<marketMode', blockchain', searchQuery'>> # <<marketMode, blockchain, searchQuery>>
\* a step that issues exactly one new asset call, of this kind, and leaves
\* the calls already pending as they are
IssuesOnly(kind) ==
    /\ Len(inflight') = Len(inflight) + 1
    /\ inflight'[Len(inflight')].kind = kind
    /\ inflight'[Len(inflight')].phase = 1
    /\ \A i \in 1..Len(inflight) :
          /\ inflight'[i].kind = inflight[i].kind
          /\ inflight'[i].phase = inflight[i].phase

\* the step of the coordinator in bluechip mode
C16_Ranked ==
    (CoordinatorRuns /\ marketMode' = "bluechips") =>
        /\ IssuesOnly("ranked")
        /\ inflight'[Len(inflight')].query = <<>>
        /\ timers' = {}
\* C16: whenever the coordinator runs in bluechip mode (on the first
\* render, on entering the mode, on a change of the search text) it issues
\* one ranked-feed call in the same step, whatever the search text; the call
\* carries no search text, no DEX call is issued and no timer is set, so
\* that no timer is ever pending in bluechip mode.
C16_BluechipsRanked ==
    [](marketMode = "bluechips" => timers = {}) /\ [][C16_Ranked]_vars

\* C16's case: in bluechip mode the search text was changed to a non-blank
\* one while the first ranked call was pending
C16_Witness ==
    /\ marketMode = "bluechips"
    /\ searchQuery = <<"a", "b">>
    /\ Len(inflight) = 2
    /\ inflight[1].kind = "ranked" /\ inflight[2].kind = "ranked"
    /\ inflight[2].query = <<>>
    /\ timers = {}

\* the two halves of C17: the step of the coordinator in memecoin mode with
\* a blank search text, and the steps that make a pair lookup pending
C17_Discovery ==
    (CoordinatorRuns /\ marketMode' = "memecoins" /\ Len(Trim(searchQuery')) = 0) =>
        /\ IssuesOnly("discovery")
        /\ inflight'[Len(inflight')].query = <<>>
        /\ inflight'[Len(inflight')].chain = blockchain'
        /\ timers' = {}
C17_LookupAfter ==
    \A i \in 1..Len(inflight') :
        inflight'[i].phase = 2 =>
           /\ inflight'[i].kind = "discovery"
           /\ \/ /\ Len(inflight') = Len(inflight)
                 /\ inflight[i].kind = "discovery"
                 /\ error' = error /\ assets' = assets /\ loading' = loading
                 /\ ~CoordinatorRuns
              \/ \E j \in 1..Len(inflight) :
                    inflight[j].phase = 2 /\ inflight[j].kind = "discovery"
\* C17: whenever the coordinator runs in memecoin mode with an empty or
\* whitespace-only search text it issues one discovery call in the same
\* step and sets no timer; a pair lookup becomes pending only in a later
\* step that resolves the trending-token call of a discovery fetch without
\* setting an error.
C17_DiscoveryImmediate == [][C17_Discovery /\ C17_LookupAfter]_vars

\* C17's case: the search text was cleared to a blank one while its timer
\* was pending, and the discovery call issued at once has reached its pair
\* lookup
C17_Witness ==
    /\ marketMode = "memecoins"
    /\ searchQuery = <<" ">>
    /\ cleared = "search"
    /\ elapsed = 0
    /\ timers = {}
    /\ Len(inflight) = 1
    /\ inflight[1].kind = "discovery"
    /\ inflight[1].phase = 2

\* the step in which the most recently triggered fetch, a discovery fetch
\* waiting for its trending-token call, ends without a failure
C18_Empty ==
    \A i \in 1..Len(inflight) :
        (/\ inflight[i].kind = "discovery" /\ inflight[i].phase = 1
         /\ inflight[i].latest
         /\ latest.state = "pending" /\ latest'.state = "applied") =>
            /\ assets' = <<>>
            /\ error' = error
            /\ loading' = FALSE
            /\ inflight' = RemoveAt(inflight, i)
\* C18: when the trending-token call of a discovery fetch succeeds with no
\* token address, the fetch ends there: the asset list becomes empty,
\* loading becomes false, the error state is left as it is (null, as the
\* fetch set it, unless an earlier fetch failed meanwhile) and no pair
\* lookup becomes pending.
C18_EmptyDiscoveryNoError == [][C18_Empty]_vars

\* C18's case: a discovery fetch, alone in flight, returned no address
\* over a non-empty asset list
C18_Witness ==
    /\ marketMode = "memecoins"
    /\ latest = [state |-> "applied", result |-> <<>>]
    /\ lastUpdated > 0
    /\ assets = <<>>
    /\ error = NoError
    /\ ~loading
    /\ inflight = <<>>

\* a step that ends the asset call i
C19_Failure ==
    \A i \in 1..Len(inflight) :
        inflight' = RemoveAt(inflight, i) =>
           /\ inflight[i].kind \in {"search", "discovery"} =>
                 error' \in {error, "Dex Uplink Interrupted"}
           /\ inflight[i].kind = "ranked" =>
                 error' \in {error, "Liquidity feed dropped.", "Failed to fetch"}
           /\ (inflight[i].latest /\ latest'.state = "failed") =>
                 /\ loading' = FALSE
                 /\ assets' = assets
                 /\ inflight[i].kind \in {"search", "discovery"} =>
                       error' = "Dex Uplink Interrupted"
                 /\ inflight[i].kind = "ranked" =>
                       error' # "Dex Uplink Interrupted"
\* C19: a DEX fetch that fails, at its first call, at its pair lookup or
\* while mapping a pair, sets the error state to 'Dex Uplink Interrupted',
\* clears loading and leaves the assets; the DEX adapter sets no other
\* error value and the ranked adapter never sets that one (its non-success
\* status sets 'Liquidity feed dropped.').
C19_ErrorNamesAdapter ==
    [](error \in {NoError, "Dex Uplink Interrupted", "Liquidity feed dropped.",
                   "Failed to fetch"})
    /\ [][C19_Failure]_vars

\* C19's case: after a ranked fetch had filled the list, a search fetch
\* failed
C19_Witness ==
    /\ marketMode = "memecoins"
    /\ Len(Trim(searchQuery)) > 0
    /\ searchIssued = 1
    /\ latest.state = "failed"
    /\ error = "Dex Uplink Interrupted"
    /\ assets # <<>>
    /\ ~loading
    /\ inflight = <<>>

----------------------------------------------------------------------------
(* Properties of the reconciliation *)

\* the pairs of rcPairs that pass the chain filter rcChain
PassFilter == {i \in 1..Len(rcPairs) : rcChain = "all" \/ rcPairs[i].chainId = rcChain}
\* USD liquidity of a pair, a missing one counting as 0
UsdLiquidity(p) == IF p.liquidity = Missing THEN 0 ELSE p.liquidity.v

\* C2: the reconciled list holds exactly one asset per distinct base-token
\* address among the pairs that pass the chain filter, and that asset's
\* price, 24h change, FDV and volume are those of a pair of maximal USD
\* liquidity among that address's filtered pairs.
C2_OnePerAddressMaxLiquidity ==
    rcDone =>
        /\ \A j, k \in 1..Len(rcOut) : rcOut[j].id = rcOut[k].id => j = k
        /\ {rcOut[j].id : j \in 1..Len(rcOut)} = {rcPairs[i].address : i \in PassFilter}
        /\ \A j \in 1..Len(rcOut) :
             \E i \in PassFilter :
                /\ rcPairs[i].address = rcOut[j].id
                /\ rcOut[j].currentPrice = Num(i)
                /\ rcOut[j].priceChange24h = Num(i + 10)
                /\ rcOut[j].marketCap = Num(i + 20)
                /\ rcOut[j].volume24h = Num(i + 30)
                /\ \A i2 \in PassFilter :
                      rcPairs[i2].address = rcPairs[i].address =>
                          UsdLiquidity(rcPairs[i2]) <= UsdLiquidity(rcPairs[i])

\* C2's case: under a chain filter, a token quoted on two pools that pass
\* it, the later one the more liquid, and a pair the filter drops
C2_Witness ==
    /\ rcDone
    /\ rcChain = "solana"
    /\ Len(rcOut) = 1
    /\ \E i, k \in PassFilter :
          /\ i < k
          /\ rcPairs[i].address = rcPairs[k].address
          /\ UsdLiquidity(rcPairs[i]) < UsdLiquidity(rcPairs[k])
    /\ \E i \in 1..Len(rcPairs) : i \notin PassFilter

\* the numeric fields of a canonical asset
NumericFields == {"currentPrice", "priceChange24h", "marketCap", "volume24h"}
\* the pair field a numeric field is mapped from
FieldOf(f) ==
    CASE f = "currentPrice" -> "priceUsd"
      [] f = "priceChange24h" -> "h24"
      [] f = "marketCap" -> "fdv"
      [] OTHER -> "vol"

\* C14: every pair that passes the filter is mapped (one asset per address),
\* and each numeric field of a mapped asset is the number its pair's field
\* parses to, or zero when that field is missing or unparseable.
C14_NumericOrZero ==
    rcDone =>
        /\ {rcOut[j].id : j \in 1..Len(rcOut)} = {rcPairs[i].address : i \in PassFilter}
        /\ \A j \in 1..Len(rcOut) :
             \E i \in PassFilter :
                /\ rcPairs[i].address = rcOut[j].id
                /\ \A f \in NumericFields :
                      rcOut[j][f] = IF rcPairs[i][FieldOf(f)].k = "num"
                                    THEN Num(rcPairs[i][FieldOf(f)].v)
                                    ELSE Num(0)

----------------------------------------------------------------------------
(* Properties of the news cache *)

\* a step that is a non-forced fetchNews call (the mount or a poll tick)
NonForcedCall == newsEvent' \in {"mount", "poll"}
\* a step that issues a news network call
IssuesNewsCall == Len(newsInflight') = Len(newsInflight) + 1

\* the two halves of C5: what the bucket holds, and what a non-forced call does
C5_Stored ==
    written.at >= 0 =>
        storage = [k |-> "json", items |-> written.items, expiry |-> written.at + CacheTtl]
C5_Read ==
    (NonForcedCall /\ written.at >= 0) =>
        IF newsNow < written.at + CacheTtl
        THEN /\ news' = written.items
             /\ newsInflight' = newsInflight
        ELSE IssuesNewsCall
\* C5: cache round trip: the entry a refresh wrote at time t is what the
\* bucket holds, with expiry t + TTL; a non-forced call before t + TTL sets
\* the displayed items to the written ones and issues no network call, a
\* non-forced call at or after t + TTL issues one.
C5_CacheRoundTrip == []C5_Stored /\ [][C5_Read]_vars

\* C5's case: the written entry was served from the cache, and the poll
\* tick at exactly its expiry has issued a fresh call
C5_Witness ==
    /\ newsEvent = "poll"
    /\ written.served
    /\ newsNow = written.at + CacheTtl
    /\ lastRead = "expired"
    /\ newsInflight # <<>>

\* a non-forced call on a corrupt entry
C6_Removed ==
    (NonForcedCall /\ storage.k = "garbage") =>
        /\ storage' = Absent
        /\ IssuesNewsCall
        /\ news' = news
\* C6: a non-forced call that finds an entry JSON.parse throws on removes it
\* and issues a network call; once the component has mounted (its first
\* call is non-forced) the bucket never holds such an entry, however the
\* following fetch ends.
C6_CorruptRemoved == [](newsMounted => storage.k # "garbage") /\ [][C6_Removed]_vars

\* C6's case: the first call found a corrupt entry, and its fetch failed
C6_Witness ==
    /\ lastRead = "corrupt"
    /\ newsEvent = "resp"
    /\ lastResp.kind = "fail"
    /\ storage = Absent

\* a non-forced call on an expired entry, and a failed fetch
C7_Kept ==
    /\ (NonForcedCall /\ storage.k = "json" /\ newsNow >= storage.expiry) =>
          /\ storage' = storage
          /\ IssuesNewsCall
          /\ news' = news
    /\ (newsEvent' = "resp" /\ lastResp'.kind = "fail") => storage' = storage
\* C7: a non-forced call that finds a well-formed entry with now >= expiry
\* issues a network call and leaves the bucket as it is; a failed fetch
\* leaves the bucket as it is too.
C7_ExpiredKept == [][C7_Kept]_vars

\* C7's case: the fetch that followed a read of an expired entry failed,
\* and the expired entry is still there
C7_Witness ==
    /\ lastRead = "expired"
    /\ newsEvent = "resp"
    /\ lastResp.kind = "fail"
    /\ storage.k = "json"
    /\ newsNow >= storage.expiry

\* a non-forced call that ends in a cache miss on an entry it found
NonForcedMiss ==
    /\ NonForcedCall
    /\ storage.k # "absent"
    /\ IssuesNewsCall

\* C8 as stated: after any non-forced read that results in a cache miss,
\* the bucket no longer holds the entry that was read.
C8_DiscardedOnMiss == [][NonForcedMiss => storage' # storage]_vars

\* C8 as amended: a non-forced read that misses removes the entry it read
\* exactly when the entry is corrupt; an expired entry stays.
C8_DiscardedWhenCorrupt ==
    [][NonForcedMiss => (storage' # storage <=> storage.k = "garbage")]_vars

\* C8's case: a poll tick has missed on an expired entry
C8_Witness ==
    /\ newsEvent = "poll"
    /\ lastRead = "expired"
    /\ storage.k = "json"

\* the step of a successful refresh
C9_Write ==
    (newsEvent' = "resp" /\ lastResp'.kind = "ok"
        /\ ~(variant = "ai" /\ lastResp'.items = <<>>)) =>
        /\ storage' = [k |-> "json", items |-> lastResp'.items,
                       expiry |-> newsNow + CacheTtl]
        /\ news' = lastResp'.items
        /\ ~ParseThrows(storage') /\ Parse(storage').items = news'
\* C9: a successful refresh, forced or not, replaces the entry by the items
\* just fetched with expiry = time of the write + TTL, and displays the
\* same items.
C9_WriteReplaces == [][C9_Write]_vars

\* C9's case: a forced refresh succeeded over an entry of a previous
\* session, with other items and a later time
C9_Witness ==
    /\ newsEvent = "resp"
    /\ lastResp.kind = "ok"
    /\ lastResp.forced
    /\ lastResp.items = <<"n2", "n3">>
    /\ newsNow > 0
    /\ storage.items = news

\* the step of a forced refresh
C10_Forced ==
    newsEvent' = "force" =>
        /\ IssuesNewsCall
        /\ newsInflight'[Len(newsInflight')].forced
        /\ storage' = storage
        /\ news' = news
        /\ newsLoading'
\* C10: a forced refresh issues a network call whatever the bucket holds,
\* and does nothing to the bucket or to the displayed items before it.
C10_ForcedBypassesCache == [][C10_Forced]_vars

\* C10's case: a forced refresh was made over a fresh entry
C10_Witness ==
    /\ newsEvent = "force"
    /\ lastRead = "forced"
    /\ storage.k = "json"
    /\ newsNow < storage.expiry
    /\ newsInflight # <<>>

\* C11: under any interleaving of the initial load, the poll timer and the
\* forced refresh, at most one news fetch is in flight at a time.
C11_OneNewsFetch == Len(newsInflight) <= 1

----------------------------------------------------------------------------
(* Properties of the chat assistant *)

\* the step at which a live call fails
C12_Fallback ==
    chatEvent' = "live_fail" =>
        /\ hasApiKey
        /\ messages[Len(messages)].role = "user"
        /\ messages' = Append(messages,
               [role |-> "model",
                text |-> GetSimulatedResponse(messages[Len(messages)].text)
                            \o <<DegradedMarker>>])
        /\ isTyping' = FALSE
        /\ chatPending' = <<>>
\* C12: in Live state, when the live call fails, exactly one model reply is
\* appended: the deterministic responder's text for the request text,
\* followed by the degraded marker; the typing flag is false afterwards.
C12_LiveFailureFallsBack == [][C12_Fallback]_vars

\* C12's case: the live call for a request naming two keyword groups in
\* upper case failed
C12_Witness ==
    /\ hasApiKey
    /\ chatEvent = "live_fail"
    /\ Len(messages) = 2
    /\ Includes(messages[1].text, <<"B", "T", "C">>)
    /\ messages[2] = [role |-> "model", text |-> <<BitcoinReply, DegradedMarker>>]
    /\ ~isTyping

\* two characters that differ at most in case
SameLetter(a, b) == a = b \/ \E i \in 1..26 : {a, b} = {UpperCase[i], LowerCase[i]}
\* the text t mentions the keyword kw, in any case
Mentions(t, kw) ==
    \E i \in 0..(Len(t) - Len(kw)) : \A j \in 1..Len(kw) : SameLetter(t[i + j], kw[j])
\* the keyword groups in their fixed order, each with its reply
KeywordGroups ==
    <<[kws |-> {KwBitcoin, KwBtc}, reply |-> BitcoinReply],
      [kws |-> {KwEthereum, KwEth}, reply |-> EthereumReply],
      [kws |-> {KwMemecoin, KwMeme}, reply |-> MemecoinReply],
      [kws |-> {KwAnalysis, KwMarket}, reply |-> MarketReply]>>
\* the reply of the first group one of whose keywords t mentions
ExpectedReply(t) ==
    LET hits == {g \in 1..Len(KeywordGroups) :
                    \E kw \in KeywordGroups[g].kws : Mentions(t, kw)} IN
    IF hits = {} THEN DefaultReply
    ELSE KeywordGroups[CHOOSE g \in hits : \A h \in hits : g <= h].reply

\* the two halves of C13: the conversation and the pending reply, and the
\* step that answers
C13_Replies ==
    ~hasApiKey =>
        /\ \A i \in 1..Len(chatPending) : chatPending[i].kind = "timer"
        /\ \A i \in 1..Len(messages) :
              messages[i].role = "model" =>
                 /\ i > 1
                 /\ messages[i - 1].role = "user"
                 /\ messages[i].text = <<ExpectedReply(messages[i - 1].text)>>
                 /\ \A j \in 1..Len(messages[i].text) :
                       messages[i].text[j] # DegradedMarker
        /\ isTyping =>
              /\ Len(chatPending) = 1
              /\ chatPending[1].text = messages[Len(messages)].text
              /\ chatPending[1].remaining = SimDelayMs - chatWaited
C13_Answers ==
    (~hasApiKey /\ chatEvent' = "sim") =>
        /\ chatWaited = SimDelayMs
        /\ Len(messages') = Len(messages) + 1
        /\ isTyping /\ ~isTyping'
\* C13: in Simulated state an accepted request issues no network call; its
\* reply is appended SimDelayMs after it was accepted and is the text of
\* the first keyword group (bitcoin/btc, ethereum/eth, memecoin/meme,
\* analysis/market) a keyword of which occurs in the request text in any
\* case, else the default text; no reply carries the degraded marker.
C13_SimulatedResponder == []C13_Replies /\ [][C13_Answers]_vars

\* C13's case: two requests were answered without a credential, the first
\* naming a later group before an earlier one, in mixed case
C13_Witness ==
    /\ ~hasApiKey
    /\ chatEvent = "sim"
    /\ Len(messages) = 4
    /\ messages[1].text = <<"m", "e", "m", "e", " ", "B", "T", "C">>
    /\ messages[2].text = <<BitcoinReply>>
    /\ messages[4].text = <<EthereumReply>>
    /\ chatWaited = SimDelayMs

----------------------------------------------------------------------------
(* No retry, in any of the three components *)

\* an asset call is issued by a run of the coordinator, at once or by the
\* timer it set; a failing call issues none and sets no timer
C20_Assets ==
    /\ Len(inflight') > Len(inflight) =>
          \/ CoordinatorRuns
          \/ \E t \in timers : t.remaining = 0 /\ timers' = timers \ {t}
    /\ (timers' # {} /\ timers = {}) => CoordinatorRuns
    /\ (error' # error /\ error' # NoError) =>
          /\ \E i \in 1..Len(inflight) : inflight' = RemoveAt(inflight, i)
          /\ timers' = timers
\* a news call is issued by the mount, a poll tick or a forced refresh; a
\* failing call issues none and leaves the poll timer as it is
C20_News ==
    /\ IssuesNewsCall =>
          /\ newsEvent' \in {"mount", "poll", "force"}
          /\ newsEvent' = "poll" => newsNow = nextPoll
    /\ (newsEvent' = "resp" /\ lastResp'.kind = "fail") =>
          /\ \E i \in 1..Len(newsInflight) : newsInflight' = RemoveAt(newsInflight, i)
          /\ nextPoll' = nextPoll
\* a live call is issued by a request the user sends; a failing call
\* issues none
C20_Chat ==
    /\ Len(chatPending') > Len(chatPending) =>
          /\ chatEvent' \in {"send", "suggest"}
          /\ messages' = Append(messages, messages'[Len(messages')])
          /\ messages'[Len(messages')].role = "user"
    /\ chatEvent' = "live_fail" =>
          \E i \in 1..Len(chatPending) : chatPending' = RemoveAt(chatPending, i)
----------------------------------------------------------------------------
(* Properties of the sort controls *)

\* the other order
Flip(o) == IF o = "desc" THEN "asc" ELSE "desc"
\* what a click on the button of key k makes of the sort state
C21_Click(k) ==
    IF k = sortKey
    THEN sortKey' = sortKey /\ sortOrder' = Flip(sortOrder)
    ELSE sortKey' = k /\ sortOrder' = "desc"
\* a step that is a click on a sort button, and a step that changes the
\* sort state
C21_Step ==
    /\ \A k \in SortButtons : SortClick(k) => C21_Click(k)
    /\ sortVars' # sortVars => \E k \in SortButtons : C21_Click(k)
\* C21: the sort state starts at market_cap, desc; a click on the selected
\* key flips the order and keeps the key, a click on another key selects it
\* with order desc, whatever the order was; nothing else changes the sort
\* state.
C21_SortStateMachine ==
    [](~appMounted => (sortKey = "market_cap" /\ sortOrder = "desc"))
    /\ [][C21_Step]_vars

\* C21's case: the order of a key other than the initial one was flipped
C21_Witness ==
    /\ sortKey = "price_change"
    /\ sortOrder = "asc"

\* the value of the field a numeric sort key reads
KeyField(key, a) ==
    CASE key = "market_cap" -> a.marketCap
      [] key = "price_change" -> a.priceChange24h
      [] key = "volume" -> a.volume24h
Ids(list) == {list[i].id : i \in 1..Len(list)}
NumericKeys == {"market_cap", "price_change", "volume"}
\* x >= y between two numbers; false when either is NaN
AtLeast(x, y) == ~x.nan /\ ~y.nan /\ x.v >= y.v
C22_Permutation ==
    /\ Len(vwOut) = Len(FilterAssets(vwAssets, vwMode, vwQuery))
    /\ Ids(vwOut) = Ids(FilterAssets(vwAssets, vwMode, vwQuery))
    /\ \A i \in 1..Len(vwOut) : vwOut[i] = vwAssets[vwOut[i].id]
C22_Monotone ==
    vwKey \in NumericKeys =>
        \A i \in 1..(Len(vwOut) - 1) :
            IF vwOrder = "desc"
            THEN AtLeast(KeyField(vwKey, vwOut[i]), KeyField(vwKey, vwOut[i + 1]))
            ELSE AtLeast(KeyField(vwKey, vwOut[i + 1]), KeyField(vwKey, vwOut[i]))
C22_Negated ==
    \A key \in SortKeys : \A i, j \in 1..Len(vwAssets) :
        Comp(key, "asc", vwAssets[i], vwAssets[j])
            = Negate(Comp(key, "desc", vwAssets[i], vwAssets[j]))
\* C22: the pipeline's output is a permutation of the filtered input, for the
\* numeric keys non-increasing when the order is desc and non-decreasing when
\* asc; the asc comparator is the negated desc comparator for every key; and
\* computing the output never changes the asset list it reads.
C22_SortedPermutation ==
    /\ [](vwDone => (C22_Permutation /\ C22_Monotone /\ C22_Negated))
    /\ [][vwAssets' = vwAssets]_vars

\* C23: in Bluechip mode with a non-empty search the pipeline keeps exactly
\* the assets whose name or symbol contains the search text as a substring,
\* whatever the case of the letters; in Bluechip mode with an empty search,
\* and in Memecoin mode with any search, it keeps every asset.
C23_Filter ==
    vwDone =>
        IF vwMode = "bluechips" /\ Len(Trim(vwQuery)) > 0
        THEN Ids(vwOut) =
                {i \in 1..Len(vwAssets) :
                    \E t \in {vwAssets[i].name, vwAssets[i].symbol} :
                        \E k \in 0..(Len(t) - Len(vwQuery)) :
                            \A n \in 1..Len(vwQuery) : SameLetter(t[k + n], vwQuery[n])}
        ELSE Ids(vwOut) = 1..Len(vwAssets)
\* a search in another case than the symbol keeps one asset and drops one
C23_Witness ==
    /\ vwDone
    /\ vwMode = "bluechips"
    /\ vwQuery = <<"b", "T">>
    /\ Len(vwAssets) = 2
    /\ Len(vwOut) = 1
    /\ vwOut[1].symbol = ViewCoins.bit.symbol

\* two assets compare equal under the key
EqualUnder(key, order, a, b) == Comp(key, order, a, b) = Num(0)
C24_Idempotent == vwAgain = vwOut
C24_Stable ==
    \A i, j \in 1..Len(vwOut) :
        (i < j /\ EqualUnder(vwKey, vwOrder, vwOut[i], vwOut[j]))
            => vwOut[i].id < vwOut[j].id
\* C24: sorting is idempotent and stable: the pipeline's sort applied to its
\* own output returns the same sequence, and assets that compare equal under
\* the key keep the relative order they had in the input.
C24_IdempotentStable == vwDone => (C24_Idempotent /\ C24_Stable)
\* a sort that moved two assets that tie ahead of a third
C24_Witness ==
    /\ vwDone
    /\ vwKey = "market_cap"
    /\ Len(vwOut) = 3
    /\ vwOut[1].id = 2 /\ vwOut[2].id = 3 /\ vwOut[3].id = 1
    /\ EqualUnder(vwKey, vwOrder, vwOut[1], vwOut[2])
    /\ vwAgain = vwOut

\* C25: in every reachable state of the asset dashboard the loading flag is
\* true whenever at least one asset fetch is in flight; the completion of an
\* earlier fetch never clears it while a later-triggered fetch is pending.
C25_LoadingWhileInFlight == inflight # <<>> => loading

\* C26: once every in-flight asset fetch has resolved, the error state is
\* non-null exactly when the most recently triggered fetch failed: no error
\* of an earlier fetch, or of the other mode's adapter, is left next to the
\* applied result of the last one.
C26_ErrorIffLastFailed ==
    (inflight = <<>> /\ latest.state \in {"applied", "failed"}) =>
        (error # NoError <=> latest.state = "failed")

\* the messages a failed asset fetch sets
FailureTexts == {"Dex Uplink Interrupted", "Liquidity feed dropped.", "Failed to fetch"}
\* a step in which an asset fetch fails
C27_Failure ==
    \A i \in 1..Len(inflight) : \A msg \in FailureTexts :
        FailWith(i, msg) =>
            /\ assets' = assets
            /\ lastUpdated' = lastUpdated
            /\ UNCHANGED <<marketMode, blockchain, searchQuery, timers, sortVars>>
C27_Whole ==
    \/ assets = <<>>
    \/ \E data \in RankedPayloads : assets = MapCoins(data)
    \/ \E pairs \in PairPayloads : \E chain \in Chains : assets = Reconcile(pairs, chain)
\* C27: a failed asset fetch changes only error and loading: the assets and
\* lastUpdated keep their values, so the asset list is always empty or the
\* whole mapped result of one successful fetch, also when that fetch was
\* made in the other market mode.
C27_FailureFrame == []C27_Whole /\ [][C27_Failure]_vars
\* the trending-token fetch of memecoin mode failed over the ranked coins
C27_Witness ==
    /\ marketMode = "memecoins"
    /\ searchQuery = <<>>
    /\ inflight = <<>>
    /\ latest.state = "failed"
    /\ error = "Dex Uplink Interrupted"
    /\ ~loading
    /\ lastUpdated > 0
    /\ \E data \in RankedPayloads : assets = MapCoins(data)

\* a step in which a news call fails: a failed transport or status, or an
\* empty result in the AI-backed variant
C28_Fails ==
    /\ newsEvent' = "resp"
    /\ \/ lastResp'.kind = "fail"
       \/ variant = "ai" /\ lastResp'.kind = "ok" /\ lastResp'.items = <<>>
\* the failure writes nothing: only the error and loading flags may change
C28_WritesNothing ==
    C28_Fails =>
        /\ storage' = storage
        /\ news' = news
        /\ UNCHANGED <<isCached, newsMounted, newsNow, nextPoll>>
\* the bucket after the failure is the bucket the call was issued over
C28_AsIssued ==
    C28_Fails =>
        \E i \in 1..Len(newsInflight) :
            /\ newsInflight' = RemoveAt(newsInflight, i)
            /\ storage' = newsInflight[i].stored
\* C28: a failed news refresh writes nothing to the cache and leaves the
\* displayed items unchanged: the persisted entry after the failure is the
\* entry that was in storage when the call was issued, and only the error
\* and loading flags change.
C28_FailedRefreshFrame == [][C28_WritesNothing /\ C28_AsIssued]_vars
C28_FrameOnly == [][C28_WritesNothing]_vars

\* C30: in every reachable state of the news feed the loading flag is true
\* whenever a news call is in flight, so the refresh button, disabled while
\* loading, cannot start a second call during a pending one; a poll tick
\* that hits a fresh cache during a forced refresh does not clear loading.
C30_LoadingWhileCall == newsInflight # <<>> => newsLoading

\* the log alternates user, model; a request is pending exactly while
\* isTyping, and then the log ends with its user message
C29_Alternates ==
    /\ \A i \in 1..Len(messages) :
          messages[i].role = IF i % 2 = 1 THEN "user" ELSE "model"
    /\ Len(chatPending) <= 1
    /\ isTyping <=> chatPending # <<>>
    /\ isTyping <=> Len(messages) % 2 = 1
\* a step of the chat: a request is accepted only with a text that is not
\* blank and while no reply is pending, and appends its user message at
\* once; a reply appends one model message and ends the typing state;
\* nothing else touches the log
C29_Step ==
    /\ chatEvent' \in {"send", "suggest"} =>
          /\ ~isTyping
          /\ Len(messages') = Len(messages) + 1
          /\ SubSeq(messages', 1, Len(messages)) = messages
          /\ messages'[Len(messages')].role = "user"
          /\ Len(Trim(messages'[Len(messages')].text)) > 0
          /\ chatEvent' = "send" => messages'[Len(messages')].text = input
          /\ isTyping'
    /\ chatEvent' \in {"sim", "live_ok", "live_fail"} =>
          /\ isTyping
          /\ Len(messages') = Len(messages) + 1
          /\ SubSeq(messages', 1, Len(messages)) = messages
          /\ messages'[Len(messages')].role = "model"
          /\ ~isTyping'
    /\ chatEvent' \in {"input", "tick"} =>
          /\ messages' = messages
          /\ isTyping' = isTyping
    /\ (isTyping \/ Len(Trim(input)) = 0) => chatEvent' # "send"
    /\ isTyping => chatEvent' # "suggest"
====
